---- MODULE Spec2Model ----
(***************************************************************************)
(* The artifact pool of fuzzcheck (fuzzcheck/src/artifacts_pool.rs) and    *)
(* the test-failure sensor that feeds it.                                  *)
(*                                                                         *)
(* Positions are 0-based as in the source; sequences are 1-based, so the   *)
(* element at position i of s is s[i + 1] (At).                            *)
(***************************************************************************)
EXTENDS Integers, Sequences, FiniteSets, TLC

VARIABLES
    inputs,         \* ArtifactsPool::inputs : Vec<ArftifactList<T>>
    stats,          \* ArtifactsPool::stats
    sensor_error,   \* TestFailureSensor::error
    TEST_FAILURE,   \* the process-wide failure slot
    call,           \* the operation that ran last, with its arguments and locals
    result,         \* what that operation returned
    events,         \* the event handler's invocations during that operation
    held,           \* an index the caller kept from an earlier return or delta
    admitted,       \* history: the (failure id, complexity) pairs process admitted
    written,        \* history: the failure written since the last start_recording
    shared_sensor   \* SHARED_SENSOR : CodeCoverageSensor

vars == <<inputs, stats, sensor_error, TEST_FAILURE, call, result, events, held,
          admitted, written, shared_sensor>>

----------------------------------------------------------------------------
(* Bounds of the model *)

\* process is called while the size of the pool is less than MaxInputs
MaxInputs == 3
\* the same, where the calls of the sensor interleave freely
MaxSensorInputs == 2
\* an edge is hit while its counter is less than MaxCounter
MaxCounter == 2
\* a comparison is traced while fewer than MaxKeys tags are set
MaxKeys == 1
\* the same, where the caller keeps an index
MaxKeptInputs == 2

----------------------------------------------------------------------------
(* Values *)

NBR_ARTIFACTS_PER_ERROR_AND_CPLX == 8

None == <<"None">>
Some(x) == <<"Some", x>>
IsSome(o) == o[1] = "Some"
Unwrap(o) == o[2]

Ok == <<"Ok">>
Err(e) == <<"Err", e>>
Unit == <<"()">>
Panic == <<"panic">>

\* f64: comparisons with NaN are false
NaN == -1
\* (mutant) >= where the source has >
f64_ge(a, b) == a # NaN /\ b # NaN /\ a >= b
\* (mutant) < where the source has >
f64_gt_reversed(a, b) == a # NaN /\ b # NaN /\ a < b
f64_gt(a, b) == a # NaN /\ b # NaN /\ a > b
\* (mutant) <= where the source has ==
f64_le(a, b) == a # NaN /\ b # NaN /\ a <= b
f64_eq(a, b) == a # NaN /\ b # NaN /\ a = b

Ids == {7, 11}
Displays == {"a", "b"}
TestFailure == [display : Displays, id : Ids]

Complexities == {1, 2, NaN}
\* the pool reads one thing of a test case, its generation
Generations == {0, 1}
TestCases == [generation : Generations]
IoErrors == {"EIO", "ENOSPC"}
HandlerReturns == {Ok} \cup {Err(e) : e \in IoErrors}

\* the sets the cap specification draws from: one failure id, one test case
CapIds == {7}
CapFailure == [display : Displays, id : CapIds]
CapComplexities == {1, 2}
CapTestCases == {[generation |-> 0]}
CapInputs == NBR_ARTIFACTS_PER_ERROR_AND_CPLX + 1

Stats == [name |-> "Stats"]

\* the lengths of the counter region, the edges that are hit, and the
\* comparisons that are traced: [width, pc, arg1, arg2]
CounterLengths == {31, 32, 65}
EdgeIndices == {0, 30, 31, 32, 64}
Cmp(width, pc, arg1, arg2) == [width |-> width, pc |-> pc, arg1 |-> arg1, arg2 |-> arg2]
CovCmps == {Cmp(8, 0, {}, 0 .. 3), Cmp(8, 1, {}, 0 .. 3), Cmp(16, 0, {0}, {0})}
Widths == {8, 16, 32, 64}
\* 0x10_0000, 0x20_0000, 0x3F_FFFF, 0x40_0000 and 0x50_0000 among the pcs
KeyPcs == {0, 1, 1048576, 2097152, 4194303, 4194304, 5242880}
KeyArgs(width) == {{}, {0}, 0 .. (width - 1)}
KeyCmps ==
    UNION {{Cmp(width, pc, arg1, arg2) :
                pc \in KeyPcs, arg1 \in KeyArgs(width), arg2 \in KeyArgs(width)} :
           width \in Widths}

----------------------------------------------------------------------------
(* Vec *)

At(s, i) == s[i + 1]
Positions(s) == 0 .. (Len(s) - 1)
Last(s) == s[Len(s)]
\* (mutant) Vec::insert(0, x) where the source has push
push_front(s, x) == <<x>> \o s
push(s, x) == Append(s, x)
\* (mutant) Vec::swap_remove(i): the last element takes the place of the removed one
swap_remove(s, i) ==
    [k \in 1 .. (Len(s) - 1) |-> IF k = i + 1 THEN s[Len(s)] ELSE s[k]]
\* Vec::remove(i): the later elements shift down by one
remove(s, i) == [k \in 1 .. (Len(s) - 1) |-> IF k <= i THEN s[k] ELSE s[k + 1]]
\* Iterator::position over the outcomes of the test on each element: the first
\* position whose element passes
position(passes) ==
    IF \E i \in Positions(passes) : At(passes, i)
    THEN Some(CHOOSE i \in Positions(passes) :
                  /\ At(passes, i)
                  /\ \A j \in Positions(passes) : At(passes, j) => i <= j)
    ELSE None
\* s with the element at position i replaced by x
SetAt(s, i, x) == [s EXCEPT ![i + 1] = x]

\* the size of a pool: its inputs, an emptied bucket counting for one
RECURSIVE SumLen(_)
SumLen(s) ==
    IF s = <<>> THEN 0
    ELSE (IF s[1].inputs = <<>> THEN 1 ELSE Len(s[1].inputs)) + SumLen(Tail(s))
RECURSIVE PoolSize(_)
PoolSize(p) == IF p = <<>> THEN 0 ELSE SumLen(p[1].inputs) + PoolSize(Tail(p))

\* the positions (g, b, i) that designate an input of pool p
ValidIndices(p) ==
    {<<g, b, i>> \in (0 .. Len(p) - 1) \X (0 .. Cardinality(Complexities)) \X (0 .. CapInputs) :
        /\ b < Len(At(p, g).inputs)
        /\ i < Len(At(At(p, g).inputs, b).inputs)}

----------------------------------------------------------------------------
(* TestFailureSensor *)

\* (mutant) start_recording clearing the sensor's slot alone
start_recording_local == [error |-> None, TEST_FAILURE |-> TEST_FAILURE]

\* fn start_recording: clears the sensor's slot and the process-wide slot
start_recording == [error |-> None, TEST_FAILURE |-> None]

\* fn stop_recording: self.error = TEST_FAILURE.clone()
stop_recording(test_failure) == [error |-> test_failure, TEST_FAILURE |-> test_failure]

\* (mutant) iterate_over_observations cloning the slot where the source takes it
iterate_by_clone(error) == [handler |-> error, error |-> error]

\* fn iterate_over_observations: *handler = std::mem::take(&mut self.error)
iterate_over_observations(error) == [handler |-> error, error |-> None]

----------------------------------------------------------------------------
(* ArtifactsPool *)

Input(data) == [generation |-> 0, data |-> data]
ArtifactListForError(cplx, ins) == [cplx |-> cplx, inputs |-> ins]
ArftifactList(error, lists) == [error |-> error, inputs |-> lists]

\* ArtifactsPool::new
new == <<>>

\* fn len
len(p) == Len(p)

\* fn get
get(p, idx) == At(At(At(p, idx[1]).inputs, idx[2]).inputs, idx[3]).data

\* (mutant) get_random_index drawing the bucket as it draws the group
get_random_index_any_bucket(p) ==
    IF p = <<>>
    THEN {None}
    ELSE UNION {
        UNION {
            LET bucket == At(At(p, error_choice).inputs, complexity_choice) IN
            IF bucket.inputs = <<>>
            THEN {Panic}
            ELSE {Some(<<error_choice, complexity_choice, input_choice>>) :
                     input_choice \in Positions(bucket.inputs)}
            : complexity_choice \in Positions(At(p, error_choice).inputs)}
        : error_choice \in Positions(p)}

\* fn get_random_index: every value the two draws of the generator can give.
\* Rng::usize panics on the empty range 0..0, and len() - 1 on a group without
\* buckets underflows.
get_random_index(p) ==
    IF p = <<>>
    THEN {None}
    ELSE UNION {
        LET list_for_error == At(p, error_choice) IN
        IF list_for_error.inputs = <<>>
        THEN {Panic}
        ELSE LET complexity_choice == Len(list_for_error.inputs) - 1
                 least_complexity == At(list_for_error.inputs, complexity_choice)
             IN  IF least_complexity.inputs = <<>>
                 THEN {Panic}
                 ELSE {Some(<<error_choice, complexity_choice, input_choice>>) :
                          input_choice \in Positions(least_complexity.inputs)}
        : error_choice \in Positions(p)}

\* (mutant) retrieve_after_processing indexing all three levels directly
retrieve_by_indexing(p, idx, generation) ==
    IF \/ idx[1] \notin Positions(p)
       \/ idx[2] \notin Positions(At(p, idx[1]).inputs)
       \/ idx[3] \notin Positions(At(At(p, idx[1]).inputs, idx[2]).inputs)
    THEN Panic
    ELSE LET input == At(At(At(p, idx[1]).inputs, idx[2]).inputs, idx[3]) IN
         IF input.data.generation = generation THEN Some(input.data) ELSE None

\* fn retrieve_after_processing: self.inputs[idx.0] is indexed directly, the
\* two inner levels go through get_mut
retrieve_after_processing(p, idx, generation) ==
    IF idx[1] \notin Positions(p)
    THEN Panic
    ELSE LET lists == At(p, idx[1]).inputs IN
         IF /\ idx[2] \in Positions(lists)
            /\ idx[3] \in Positions(At(lists, idx[2]).inputs)
         THEN LET input == At(At(lists, idx[2]).inputs, idx[3]) IN
              IF input.data.generation = generation
              THEN Some(input.data)
              ELSE None
         ELSE None

\* fn mark_test_case_as_dead_end
mark_test_case_as_dead_end(p, idx) ==
    LET list == At(p, idx[1])
        bucket == At(list.inputs, idx[2])
    IN  SetAt(p, idx[1],
              [list EXCEPT !.inputs =
                  SetAt(list.inputs, idx[2],
                        [bucket EXCEPT !.inputs = remove(bucket.inputs, idx[3])])])

\* fn minify: todo!(), a panic before anything is read or written
minify(p, target_len) == [inputs |-> p, events |-> <<>>, result |-> Panic]

\* enum PositionOfNewInput
NewError == <<"NewError">>
ExistingErrorNewCplx(list_index) == <<"ExistingErrorNewCplx", list_index>>
ExistingErrorAndCplx(list_index) == <<"ExistingErrorAndCplx", list_index>>

\* (mutant) the equal-complexity arm without the test of the bucket's length
same_cplx_without_cap(p, least_complex, error) ==
    position([k \in DOMAIN p |-> p[k].error.display = error.display]) = None

\* process, the test of the equal-complexity arm
same_cplx_is_interesting(p, least_complex, error) ==
    /\ Len(least_complex.inputs) < NBR_ARTIFACTS_PER_ERROR_AND_CPLX
    /\ position([k \in DOMAIN p |-> p[k].error.display = error.display]) = None

\* process, the arms on the least complex bucket of the group at list_index
existing_error_is_interesting(p, list_index, error, complexity) ==
    LET list == At(p, list_index) IN
    IF list.inputs # <<>>
    THEN LET least_complex == Last(list.inputs) IN
         IF f64_gt(least_complex.cplx, complexity)
         THEN Some(ExistingErrorNewCplx(list_index))
         ELSE IF f64_eq(least_complex.cplx, complexity)
              THEN IF same_cplx_is_interesting(p, least_complex, error)
                   THEN Some(ExistingErrorAndCplx(list_index))
                   ELSE None
              ELSE None
    ELSE Some(ExistingErrorNewCplx(list_index))

\* (mutant) the group of a failure located by its display
is_interesting_by_display(p, error, complexity) ==
    LET list_index == position([k \in DOMAIN p |-> p[k].error.display = error.display]) IN
    IF IsSome(list_index)
    THEN existing_error_is_interesting(p, Unwrap(list_index), error, complexity)
    ELSE Some(NewError)

\* process, the classification of a failure: is_interesting
is_interesting(p, error, complexity) ==
    LET list_index == position([k \in DOMAIN p |-> p[k].error.id = error.id]) IN
    IF IsSome(list_index)
    THEN existing_error_is_interesting(p, Unwrap(list_index), error, complexity)
    ELSE Some(NewError)

\* process, the resolution and clone of get_input_ref
clone_input(x) == x
input_data(p, get_input_ref) ==
    IF get_input_ref[1] = "Left"
    THEN clone_input(get(p, get_input_ref[2]))
    ELSE clone_input(get_input_ref[2])

\* (mutant) the insertion reporting position 0 of the bucket in every arm
insert_reports_first(p, pos, error, complexity, input) ==
    IF pos = NewError
    THEN LET q == push(p, ArftifactList(error, <<ArtifactListForError(complexity, <<input>>)>>))
         IN  [inputs |-> q, new_index |-> <<Len(q) - 1, 0, 0>>]
    ELSE LET error_idx == pos[2]
             list == At(p, error_idx)
         IN  IF pos[1] = "ExistingErrorNewCplx"
             THEN LET lists == push(list.inputs, ArtifactListForError(complexity, <<input>>))
                  IN  [inputs |-> SetAt(p, error_idx, [list EXCEPT !.inputs = lists]),
                       new_index |-> <<error_idx, Len(lists) - 1, 0>>]
             ELSE LET last == Last(list.inputs)
                      grown == [last EXCEPT !.inputs = push(last.inputs, input)]
                      lists == [list.inputs EXCEPT ![Len(list.inputs)] = grown]
                  IN  [inputs |-> SetAt(p, error_idx, [list EXCEPT !.inputs = lists]),
                       new_index |-> <<error_idx, Len(lists) - 1, 0>>]

\* process, the insertion: the new pool and new_index
insert(p, pos, error, complexity, input) ==
    IF pos = NewError
    THEN LET q == push(p, ArftifactList(error, <<ArtifactListForError(complexity, <<input>>)>>))
         IN  [inputs |-> q, new_index |-> <<Len(q) - 1, 0, 0>>]
    ELSE LET error_idx == pos[2]
             list == At(p, error_idx)
         IN  IF pos[1] = "ExistingErrorNewCplx"
             THEN LET lists == push(list.inputs, ArtifactListForError(complexity, <<input>>))
                  IN  [inputs |-> SetAt(p, error_idx, [list EXCEPT !.inputs = lists]),
                       new_index |-> <<error_idx, Len(lists) - 1, 0>>]
             ELSE LET last == Last(list.inputs)
                      grown == [last EXCEPT !.inputs = push(last.inputs, input)]
                      lists == [list.inputs EXCEPT ![Len(list.inputs)] = grown]
                  IN  [inputs |-> SetAt(p, error_idx, [list EXCEPT !.inputs = lists]),
                       new_index |-> <<error_idx, Len(lists) - 1, Len(grown.inputs) - 1>>]

\* (mutant) the delta of a pool the input is not yet in: nothing added
CorpusDelta_before_insertion(p, new_index) == [add |-> None, remove |-> <<>>]

\* process, the delta handed to the event handler
CorpusDelta(p, new_index) ==
    [add |-> Some(<<get(p, new_index), new_index>>), remove |-> <<>>]

\* (mutant) the handler's return dropped
question_mark_dropped(returned) == Ok

\* process, event_handler(delta, self.stats)?; Ok(())
question_mark(returned) == IF returned[1] = "Err" THEN returned ELSE Ok

----------------------------------------------------------------------------
(* CodeCoverageSensor *)

\* struct CodeCoverageSensor over a counter region of n edges, before a run
CodeCoverageSensor(n) ==
    [is_recording |-> FALSE, eight_bit_counters |-> [i \in 1 .. n |-> 0], features |-> {}]

\* const CHUNK_SIZE of iterate_over_collected_features
CHUNK_SIZE == 32
\* Feature::id_offset(), the shift of the pc in the tag of a comparison
id_offset == 8

\* usize: &, | and << bit by bit. The values here stay below 2^31, so that <<
\* loses no bit of the 64
RECURSIVE bitand(_, _)
bitand(a, b) ==
    IF a = 0 \/ b = 0 THEN 0
    ELSE (a % 2) * (b % 2) + 2 * bitand(a \div 2, b \div 2)
RECURSIVE bitor(_, _)
bitor(a, b) ==
    IF a = 0 THEN b
    ELSE IF b = 0 THEN a
    ELSE (IF a % 2 = 1 \/ b % 2 = 1 THEN 1 ELSE 0) + 2 * bitor(a \div 2, b \div 2)
shl(a, n) == a * 2 ^ n

\* u8, u16, u32, u64: an argument of a comparison is the set of the positions
\* of its 1 bits, which holds all 64 bits; ^ and count_ones on such sets
bitxor(a, b) == (a \ b) \cup (b \ a)
count_ones(x) == Cardinality(x)

\* (mutant) the tag with the pc left unshifted
make_instr_feature_unshifted(pc, arg1, arg2) ==
    bitor(bitand(pc, 3145727), count_ones(bitxor(arg1, arg2)))

\* macro make_instr_feature_without_tag; 0x2F_FFFF is 3145727
make_instr_feature_without_tag(pc, arg1, arg2) ==
    bitor(shl(bitand(pc, 3145727), id_offset), count_ones(bitxor(arg1, arg2)))

\* HBitSet::set and HBitSet::drain, which visits the keys in increasing order
set(features, f) == features \cup {f}
RECURSIVE drain(_)
drain(features) ==
    IF features = {} THEN <<>>
    ELSE LET f == CHOOSE x \in features : \A y \in features : x <= y
         IN  <<f>> \o drain(features \ {f})

\* Feature::edge and Feature::from_instr, as the handler is given them
edge(pc_guard, counter) == [kind |-> "edge", pc_guard |-> pc_guard, counter |-> counter]
from_instr(f) == [kind |-> "instr", f |-> f]

\* fn handle_trace_cmp_u8, _u16, _u32, _u64: the local f and the sensor after
handle_trace_cmp(sensor, pc, arg1, arg2) ==
    LET f == make_instr_feature_without_tag(pc, arg1, arg2) IN
    [f |-> Some(f), sensor |-> [sensor EXCEPT !.features = set(@, f)]]

\* (mutant) the hook without the test of is_recording
trace_cmp_always(sensor, pc, arg1, arg2) == handle_trace_cmp(sensor, pc, arg1, arg2)

\* mod hooks, __sanitizer_cov_trace_cmp1, 2, 4, 8: returns at once when the
\* sensor is not recording, calls handle_trace_cmp_* otherwise
trace_cmp(sensor, pc, arg1, arg2) ==
    IF ~sensor.is_recording
    THEN [f |-> None, sensor |-> sensor]
    ELSE handle_trace_cmp(sensor, pc, arg1, arg2)

\* for (j, x) in slice.iter().enumerate(), from j on: the calls of the handler
RECURSIVE scan_bytes(_, _, _)
scan_bytes(slice, start, j) ==
    IF j >= Len(slice) THEN <<>>
    ELSE (IF At(slice, j) = 0 THEN <<>> ELSE <<edge(start + j, At(slice, j))>>)
         \o scan_bytes(slice, start, j + 1)

\* for i in 0..length_chunks, from i on: the calls of the handler
RECURSIVE scan_chunks(_, _, _)
scan_chunks(counters, i, length_chunks) ==
    IF i >= length_chunks THEN <<>>
    ELSE LET start == i * CHUNK_SIZE
             end == start + CHUNK_SIZE
             slice == SubSeq(counters, start + 1, end)
             zero == [k \in 1 .. CHUNK_SIZE |-> 0]
         IN  (IF slice = zero THEN <<>> ELSE scan_bytes(slice, start, 0))
             \o scan_chunks(counters, i + 1, length_chunks)

\* (mutant) iterate_over_collected_features without the loop on the remainder
iterate_without_remainder(sensor) ==
    LET counters == sensor.eight_bit_counters
        length_chunks == Len(counters) \div CHUNK_SIZE
        drained == drain(sensor.features)
    IN  [handle |-> scan_chunks(counters, 0, length_chunks)
                    \o [k \in 1 .. Len(drained) |-> from_instr(drained[k])],
         sensor |-> [sensor EXCEPT !.features = {}]]

\* fn iterate_over_collected_features: the calls of the handler, in order, and
\* the sensor after
iterate_over_collected_features(sensor) ==
    LET counters == sensor.eight_bit_counters
        length_chunks == Len(counters) \div CHUNK_SIZE
        start_remainder == length_chunks * CHUNK_SIZE
        remainder == SubSeq(counters, start_remainder + 1, Len(counters))
        drained == drain(sensor.features)
    IN  [handle |-> scan_chunks(counters, 0, length_chunks)
                    \o scan_bytes(remainder, start_remainder, 0)
                    \o [k \in 1 .. Len(drained) |-> from_instr(drained[k])],
         sensor |-> [sensor EXCEPT !.features = {}]]

\* fn clear
clear(sensor) ==
    [sensor EXCEPT !.eight_bit_counters = [i \in DOMAIN @ |-> 0], !.features = {}]

----------------------------------------------------------------------------
(* Initial state: a pool just constructed, a default sensor, an empty slot *)

NoCall == [op |-> "new"]

Init ==
    /\ inputs = new
    /\ stats = Stats
    /\ sensor_error = None
    /\ TEST_FAILURE = None
    /\ call = NoCall
    /\ result = Unit
    /\ events = <<>>
    /\ held = None
    /\ admitted = {}
    /\ written = None
    /\ shared_sensor = CodeCoverageSensor(0)

----------------------------------------------------------------------------
(* Operations *)

Returns(op, r) ==
    /\ call' = [op |-> op]
    /\ result' = r
    /\ events' = <<>>

\* one recorded run of the test function, as the driver sequences it:
\* start_recording, the test (whose failure guard writes the process-wide slot
\* when the test fails), stop_recording
RunTestOf(Failures) ==
    \E failed \in {None} \cup {Some(f) : f \in Failures} :
        LET started == start_recording
            slot == IF IsSome(failed) THEN failed ELSE started.TEST_FAILURE
            stopped == stop_recording(slot)
        IN  /\ sensor_error' = stopped.error
            /\ TEST_FAILURE' = stopped.TEST_FAILURE
            /\ written' = failed
            /\ Returns("run_test", Unit)
            /\ UNCHANGED <<inputs, stats, held, admitted, shared_sensor>>

process(get_input_ref, complexity, handler_return) ==
    LET observed == iterate_over_observations(sensor_error)
        error == observed.handler
        interesting == IF IsSome(error)
                       THEN is_interesting(inputs, Unwrap(error), complexity)
                       ELSE None
    IN  /\ sensor_error' = observed.error
        /\ IF IsSome(interesting)
           THEN LET data == input_data(inputs, get_input_ref)
                    ins == insert(inputs, Unwrap(interesting), Unwrap(error),
                                  complexity, Input(data))
                IN  /\ inputs' = ins.inputs
                    /\ admitted' = admitted \cup {<<Unwrap(error).id, complexity>>}
                    /\ events' = <<[delta |-> CorpusDelta(ins.inputs, ins.new_index),
                                    stats |-> stats,
                                    returned |-> handler_return]>>
                    /\ result' = question_mark(handler_return)
                    /\ call' = [op |-> "process", error |-> error,
                                complexity |-> complexity, position |-> interesting,
                                data |-> Some(data), new_index |-> Some(ins.new_index)]
           ELSE /\ inputs' = inputs
                /\ admitted' = admitted
                /\ events' = <<>>
                /\ result' = Ok
                /\ call' = [op |-> "process", error |-> error,
                            complexity |-> complexity, position |-> interesting,
                            data |-> None, new_index |-> None]
        /\ UNCHANGED <<stats, TEST_FAILURE, held, written, shared_sensor>>

ProcessOf(Cases, Cplxs, cap) ==
    /\ PoolSize(inputs) < cap
    /\ \E complexity \in Cplxs, handler_return \in HandlerReturns :
       \E get_input_ref \in {<<"Right", x>> : x \in Cases}
                            \cup {<<"Left", idx>> : idx \in ValidIndices(inputs)} :
           process(get_input_ref, complexity, handler_return)

GetRandomIndex ==
    /\ \E r \in get_random_index(inputs) : Returns("get_random_index", r)
    /\ UNCHANGED <<inputs, stats, sensor_error, TEST_FAILURE, held, admitted, written, shared_sensor>>

MarkTestCaseAsDeadEnd ==
    \E idx \in ValidIndices(inputs) :
        /\ inputs' = mark_test_case_as_dead_end(inputs, idx)
        /\ call' = [op |-> "mark_test_case_as_dead_end", idx |-> idx]
        /\ result' = Unit
        /\ events' = <<>>
        /\ UNCHANGED <<stats, sensor_error, TEST_FAILURE, held, admitted, written, shared_sensor>>

\* the caller keeps the index it was just given: the return of get_random_index
\* or the index of a delta
KeepIndex ==
    /\ \/ /\ call.op = "get_random_index"
          /\ IsSome(result)
          /\ held' = result
       \/ /\ call.op = "process"
          /\ events # <<>>
          /\ held' = Some(Unwrap(events[1].delta.add)[2])
    /\ held' # held
    /\ UNCHANGED <<inputs, stats, sensor_error, TEST_FAILURE, call, result, events, admitted, written, shared_sensor>>

RetrieveAfterProcessing ==
    /\ IsSome(held)
    /\ \E generation \in Generations :
        /\ call' = [op |-> "retrieve_after_processing", idx |-> Unwrap(held),
                    generation |-> generation]
        /\ result' = retrieve_after_processing(inputs, Unwrap(held), generation)
        /\ events' = <<>>
    /\ UNCHANGED <<inputs, stats, sensor_error, TEST_FAILURE, held, admitted, written, shared_sensor>>

RunTest == RunTestOf(TestFailure)
Process == ProcessOf(TestCases, Complexities, MaxInputs)

Next ==
    \/ RunTest
    \/ Process
    \/ GetRandomIndex
    \/ MarkTestCaseAsDeadEnd

Spec == Init /\ [][Next]_vars

\* The same pool with a caller that keeps an index and retrieves it later
ProcessKeep == ProcessOf(TestCases, Complexities, MaxKeptInputs)

NextKeep ==
    \/ RunTest
    \/ ProcessKeep
    \/ GetRandomIndex
    \/ MarkTestCaseAsDeadEnd
    \/ KeepIndex
    \/ RetrieveAfterProcessing

SpecKeep == Init /\ [][NextKeep]_vars

\* The sensor's operations one by one, in any order, with process and minify
StartRecording ==
    /\ sensor_error' = start_recording.error
    /\ TEST_FAILURE' = start_recording.TEST_FAILURE
    /\ written' = None
    /\ Returns("start_recording", Unit)
    /\ UNCHANGED <<inputs, stats, held, admitted, shared_sensor>>

\* the failure guard of the test function writes the process-wide slot
FailureGuard ==
    \E f \in TestFailure :
        /\ TEST_FAILURE' = Some(f)
        /\ written' = Some(f)
        /\ Returns("test", Unit)
        /\ UNCHANGED <<inputs, stats, sensor_error, held, admitted, shared_sensor>>

StopRecording ==
    /\ sensor_error' = stop_recording(TEST_FAILURE).error
    /\ TEST_FAILURE' = stop_recording(TEST_FAILURE).TEST_FAILURE
    /\ Returns("stop_recording", Unit)
    /\ UNCHANGED <<inputs, stats, held, admitted, written, shared_sensor>>

IterateOverObservations ==
    /\ sensor_error' = iterate_over_observations(sensor_error).error
    /\ Returns("iterate_over_observations", iterate_over_observations(sensor_error).handler)
    /\ UNCHANGED <<inputs, stats, TEST_FAILURE, held, admitted, written, shared_sensor>>

Minify ==
    \E target_len \in 0 .. MaxSensorInputs :
        /\ inputs' = minify(inputs, target_len).inputs
        /\ events' = minify(inputs, target_len).events
        /\ result' = minify(inputs, target_len).result
        /\ call' = [op |-> "minify", target_len |-> target_len]
        /\ UNCHANGED <<stats, sensor_error, TEST_FAILURE, held, admitted, written,
                       shared_sensor>>

ProcessSensor == ProcessOf(TestCases, Complexities, MaxSensorInputs)

NextSensor ==
    \/ StartRecording
    \/ FailureGuard
    \/ StopRecording
    \/ IterateOverObservations
    \/ ProcessSensor
    \/ Minify

SpecSensor == Init /\ [][NextSensor]_vars

\* The coverage sensor. Its start_recording and stop_recording, and the
\* increments of the instrumented program, are those of the specification
InitOf(lengths) ==
    /\ inputs = new
    /\ stats = Stats
    /\ sensor_error = None
    /\ TEST_FAILURE = None
    /\ call = NoCall
    /\ result = Unit
    /\ events = <<>>
    /\ held = None
    /\ admitted = {}
    /\ written = None
    /\ shared_sensor \in {CodeCoverageSensor(n) : n \in lengths}

CoverageStartRecording ==
    /\ shared_sensor' = [clear(shared_sensor) EXCEPT !.is_recording = TRUE]
    /\ Returns("CodeCoverageSensor::start_recording", Unit)
    /\ UNCHANGED <<inputs, stats, sensor_error, TEST_FAILURE, held, admitted, written>>

CoverageStopRecording ==
    /\ shared_sensor' = [shared_sensor EXCEPT !.is_recording = FALSE]
    /\ Returns("CodeCoverageSensor::stop_recording", Unit)
    /\ UNCHANGED <<inputs, stats, sensor_error, TEST_FAILURE, held, admitted, written>>

\* the instrumented program passes an edge: its counter goes up by one
EdgeHit ==
    \E i \in EdgeIndices \cap Positions(shared_sensor.eight_bit_counters) :
        /\ At(shared_sensor.eight_bit_counters, i) < MaxCounter
        /\ shared_sensor' =
            [shared_sensor EXCEPT !.eight_bit_counters[i + 1] = @ + 1]
        /\ call' = [op |-> "edge", pc_guard |-> i]
        /\ result' = Unit
        /\ events' = <<>>
        /\ UNCHANGED <<inputs, stats, sensor_error, TEST_FAILURE, held, admitted, written>>

\* the instrumented program passes a comparison: the hook runs
TraceCmpOf(Cmps) ==
    \E c \in Cmps :
        LET traced == trace_cmp(shared_sensor, c.pc, c.arg1, c.arg2) IN
        /\ shared_sensor' = traced.sensor
        /\ call' = [op |-> "trace_cmp", width |-> c.width, pc |-> c.pc,
                    arg1 |-> c.arg1, arg2 |-> c.arg2, f |-> traced.f]
        /\ result' = Unit
        /\ events' = <<>>
        /\ UNCHANGED <<inputs, stats, sensor_error, TEST_FAILURE, held, admitted, written>>

IterateOverCollectedFeatures ==
    LET iterated == iterate_over_collected_features(shared_sensor) IN
    /\ shared_sensor' = iterated.sensor
    /\ events' = iterated.handle
    /\ call' = [op |-> "iterate_over_collected_features"]
    /\ result' = Unit
    /\ UNCHANGED <<inputs, stats, sensor_error, TEST_FAILURE, held, admitted, written>>

TraceCmpCov == TraceCmpOf(CovCmps)

NextCov ==
    \/ CoverageStartRecording
    \/ CoverageStopRecording
    \/ EdgeHit
    \/ TraceCmpCov
    \/ IterateOverCollectedFeatures

SpecCov == InitOf(CounterLengths) /\ [][NextCov]_vars

\* The tags of the comparisons, over pcs and arguments of every width
TraceCmpKey ==
    /\ Cardinality(shared_sensor.features) < MaxKeys
    /\ TraceCmpOf(KeyCmps)

NextKey ==
    \/ CoverageStartRecording
    \/ CoverageStopRecording
    \/ TraceCmpKey

SpecKey == InitOf({0}) /\ [][NextKey]_vars

\* The cap specification: one failure id and one test case, so that a bucket
\* can be filled to NBR_ARTIFACTS_PER_ERROR_AND_CPLX and offered one more
RunTestCap == RunTestOf(CapFailure)
ProcessCap == ProcessOf(CapTestCases, CapComplexities, CapInputs)

NextCap ==
    \/ RunTestCap
    \/ ProcessCap
    \/ MarkTestCaseAsDeadEnd

SpecCap == Init /\ [][NextCap]_vars

----------------------------------------------------------------------------
(* Properties *)

Groups == Positions(inputs)
Buckets(g) == Positions(At(inputs, g).inputs)
Bucket(g, b) == At(At(inputs, g).inputs, b)
LastBucket(g) == Last(At(inputs, g).inputs)
\* the order of the reals on complexities, false where NaN is compared
Less(a, b) == a # NaN /\ b # NaN /\ a < b
\* the group of a failure id in pool p, as a set of positions
GroupsOf(p, id) == {g \in Positions(p) : At(p, g).error.id = id}
Displayed(p) == {At(p, g).error.display : g \in Positions(p)}

\* C1: every complexity bucket of every error group holds at most
\* NBR_ARTIFACTS_PER_ERROR_AND_CPLX = 8 inputs, whatever process and
\* mark_test_case_as_dead_end calls came before.
C1_BucketCap ==
    \A g \in Groups : \A b \in Buckets(g) :
        Len(Bucket(g, b).inputs) <= NBR_ARTIFACTS_PER_ERROR_AND_CPLX

\* a full bucket was offered one more input of its complexity, under a display
\* no group carries, and process turned it down
C1_Witness ==
    /\ call.op = "process"
    /\ IsSome(call.error)
    /\ call.position = None
    /\ Unwrap(call.error).display \notin Displayed(inputs)
    /\ \E g \in GroupsOf(inputs, Unwrap(call.error).id) :
        /\ LastBucket(g).cplx = call.complexity
        /\ Len(LastBucket(g).inputs) = NBR_ARTIFACTS_PER_ERROR_AND_CPLX

\* C2: within every error group the bucket complexities strictly decrease along
\* the bucket sequence, and the last bucket's complexity is the minimum of the
\* complexities at which a failure of the group's id was admitted.
C2_MinimalityMonotonicity ==
    \A g \in Groups :
        LET list == At(inputs, g)
            seen == {a[2] : a \in {x \in admitted : x[1] = list.error.id}}
        IN  /\ \A b \in Buckets(g) :
                b + 1 \in Buckets(g) => Less(Bucket(g, b + 1).cplx, Bucket(g, b).cplx)
            /\ list.inputs # <<>>
            /\ LastBucket(g).cplx \in seen
            /\ \A c \in seen : ~Less(c, LastBucket(g).cplx)

\* a second, lower complexity was just admitted into a group
C2_Witness ==
    /\ call.op = "process"
    /\ IsSome(call.position)
    /\ Unwrap(call.position)[1] = "ExistingErrorNewCplx"
    /\ \E g \in Groups :
        /\ Len(At(inputs, g).inputs) = 2
        /\ Cardinality({x \in admitted : x[1] = At(inputs, g).error.id}) = 2

\* a step of process that observes a failure
ProcessStep == call'.op = "process" /\ IsSome(sensor_error)
Observed == Unwrap(sensor_error)

\* C3: a failure of id X, shown as X's group is shown, processed at exactly the
\* complexity of the last bucket of X's group while that bucket holds fewer
\* than 8 inputs, is admitted into that bucket.
C3_EqualComplexityAdmitted ==
    [][ProcessStep => \A g \in GroupsOf(inputs, Observed.id) :
        (/\ Observed.display = At(inputs, g).error.display
         /\ LastBucket(g).cplx = call'.complexity
         /\ call'.complexity # NaN
         /\ Len(LastBucket(g).inputs) < NBR_ARTIFACTS_PER_ERROR_AND_CPLX)
        => /\ call'.position = Some(ExistingErrorAndCplx(g))
           /\ Len(Last(At(inputs', g).inputs).inputs) = Len(LastBucket(g).inputs) + 1
      ]_vars

\* C4: with a group of id A shown as d in the pool, a failure of another id B
\* that has no group and is shown as d creates no group, leaves the pool as it
\* is and does not reach the event handler.
C4_DisplayDeduplicated ==
    [][(/\ ProcessStep
        /\ GroupsOf(inputs, Observed.id) = {}
        /\ Observed.display \in Displayed(inputs))
        => /\ inputs' = inputs
           /\ events' = <<>>
      ]_vars

\* C5: where the group g of failure id X has last-bucket complexity c2, process
\* of a failure of id X at a complexity c1 < c2 admits the candidate whatever
\* the bucket sizes and displays: group g gains one bucket, of complexity c1 and
\* holding that input alone, the delta reports (g, number of buckets - 1, 0),
\* c1 is the group's new minimum, and nothing else changes.
C5_AdmissionMonotonicity ==
    [][ProcessStep => \A g \in GroupsOf(inputs, Observed.id) :
        (/\ At(inputs, g).inputs # <<>>
         /\ Less(call'.complexity, LastBucket(g).cplx))
        => /\ IsSome(call'.data)
           /\ Len(inputs') = Len(inputs)
           /\ \A h \in Groups : h # g => At(inputs', h) = At(inputs, h)
           /\ At(inputs', g).error = At(inputs, g).error
           /\ At(inputs', g).inputs =
                  Append(At(inputs, g).inputs,
                         [cplx |-> call'.complexity,
                          inputs |-> <<[generation |-> 0,
                                        data |-> Unwrap(call'.data)]>>])
           /\ Len(events') = 1
           /\ events'[1].delta.add =
                  Some(<<Unwrap(call'.data), <<g, Len(At(inputs', g).inputs) - 1, 0>>>>)
           /\ \A b \in Positions(At(inputs', g).inputs) :
                  ~Less(At(At(inputs', g).inputs, b).cplx, call'.complexity)
      ]_vars

\* a lower complexity was admitted although its failure is shown as a group of
\* the pool is shown
C5_Witness ==
    /\ call.op = "process"
    /\ IsSome(call.position)
    /\ Unwrap(call.position)[1] = "ExistingErrorNewCplx"
    /\ Unwrap(call.error).display \in Displayed(inputs)
    /\ Unwrap(call.new_index)[2] >= 1
    /\ Len(inputs) >= 2

\* C6: get_random_index returns no index on a pool without groups; an index
\* (g, b, i) it returns has g a group, b the position of the last bucket of g
\* and i a position of that bucket; and where no bucket is empty, as after
\* process calls alone, it does return an index.
C6_SamplingFocus ==
    call.op = "get_random_index" =>
        /\ inputs = <<>> => result = None
        /\ IsSome(result) =>
            LET idx == Unwrap(result) IN
            /\ idx[1] \in Groups
            /\ idx[2] = Len(At(inputs, idx[1]).inputs) - 1
            /\ idx[2] \in Buckets(idx[1])
            /\ idx[3] \in Positions(Bucket(idx[1], idx[2]).inputs)
        /\ (/\ inputs # <<>>
            /\ \A g \in Groups : \A b \in Buckets(g) : Bucket(g, b).inputs # <<>>)
           => IsSome(result)

\* an index was returned for a group that has a bucket before its last one
C6_Witness ==
    /\ call.op = "get_random_index"
    /\ IsSome(result)
    /\ Len(At(inputs, Unwrap(result)[1]).inputs) >= 2
    /\ Bucket(Unwrap(result)[1], 0).inputs # <<>>

\* C7: a process call that admits its candidate calls the event handler once,
\* on the pool that holds the new input, with a delta that removes nothing and
\* adds (the input at the new index, the new index); that input is the clone of
\* the candidate, and the index is (groups - 1, 0, 0) for a new error,
\* (g, buckets - 1, 0) for a new complexity and
\* (g, buckets - 1, bucket length - 1) for an existing complexity.
C7_DeltaOnAdmission ==
    (call.op = "process" /\ IsSome(call.position)) =>
        /\ Len(events) = 1
        /\ events[1].delta.remove = <<>>
        /\ IsSome(events[1].delta.add)
        /\ LET added == Unwrap(events[1].delta.add)
               pos == Unwrap(call.position)
               idx == added[2]
           IN  /\ idx \in ValidIndices(inputs)
               /\ get(inputs, idx) = added[1]
               /\ added[1] = Unwrap(call.data)
               /\ IF pos[1] = "NewError"
                  THEN idx = <<Len(inputs) - 1, 0, 0>>
                  ELSE IF pos[1] = "ExistingErrorNewCplx"
                  THEN idx = <<pos[2], Len(At(inputs, pos[2]).inputs) - 1, 0>>
                  ELSE idx = <<pos[2], Len(At(inputs, pos[2]).inputs) - 1,
                               Len(LastBucket(pos[2]).inputs) - 1>>

\* an input was admitted into an existing bucket behind an input that differs
\* from it
C7_Witness ==
    /\ call.op = "process"
    /\ IsSome(call.position)
    /\ Unwrap(call.position)[1] = "ExistingErrorAndCplx"
    /\ Len(events) = 1
    /\ Unwrap(call.new_index)[3] >= 1
    /\ get(inputs, <<Unwrap(call.new_index)[1], Unwrap(call.new_index)[2], 0>>)
           # Unwrap(call.data)

\* C8: process returns the I/O error its event handler returned, and success
\* when the handler returned success or was not called.
C8_ErrorPropagation ==
    call.op = "process" =>
        IF events # <<>> /\ events[1].returned # Ok
        THEN result = events[1].returned /\ result[1] = "Err"
        ELSE result = Ok

\* the handler failed and process returned its error
C8_Witness ==
    /\ call.op = "process"
    /\ events # <<>>
    /\ events[1].returned = Err("ENOSPC")
    /\ result = Err("ENOSPC")

\* C9: mark_test_case_as_dead_end(g, b, i) removes the input at position i of
\* bucket b of group g, the later inputs of that bucket moving down by one in
\* their order, and changes nothing else: not the groups, their failures, their
\* buckets, the buckets' complexities, the other buckets' inputs or the stats;
\* an emptied bucket stays.
C9_DeadEndFrame ==
    [][call'.op = "mark_test_case_as_dead_end" =>
        LET idx == call'.idx IN
        /\ Len(inputs') = Len(inputs)
        /\ stats' = stats
        /\ \A g \in Groups :
            /\ At(inputs', g).error = At(inputs, g).error
            /\ Len(At(inputs', g).inputs) = Len(At(inputs, g).inputs)
            /\ \A b \in Buckets(g) :
                LET old == Bucket(g, b)
                    now == At(At(inputs', g).inputs, b)
                IN  /\ now.cplx = old.cplx
                    /\ IF <<g, b>> = <<idx[1], idx[2]>>
                       THEN /\ Len(now.inputs) = Len(old.inputs) - 1
                            /\ \A k \in Positions(now.inputs) :
                                At(now.inputs, k) =
                                    IF k < idx[3] THEN At(old.inputs, k)
                                    ELSE At(old.inputs, k + 1)
                       ELSE now.inputs = old.inputs
      ]_vars

\* an input was removed from before two inputs that differ
C9_Witness ==
    /\ call.op = "mark_test_case_as_dead_end"
    /\ LET now == Bucket(call.idx[1], call.idx[2]).inputs IN
        /\ call.idx[3] = 0
        /\ Len(now) = 2
        /\ now[1] # now[2]

\* C10: retrieve_after_processing of an index the pool handed out earlier never
\* fails, whatever process and mark_test_case_as_dead_end calls came between:
\* it returns the input at that position if the position still exists and the
\* input's generation is the given one, and no value otherwise.
C10_StaleIndexIsNotAnError ==
    call.op = "retrieve_after_processing" =>
        /\ result # Panic
        /\ IF /\ call.idx \in ValidIndices(inputs)
              /\ get(inputs, call.idx).generation = call.generation
           THEN result = Some(get(inputs, call.idx))
           ELSE result = None

\* the position of the kept index is gone and no value was returned
C10_Witness ==
    /\ call.op = "retrieve_after_processing"
    /\ call.idx \notin ValidIndices(inputs)
    /\ result = None

\* C11: minify returns a "not implemented" error value to its caller, with the
\* pool unchanged and the event handler not called.
C11_MinifyReturnsError ==
    [][call'.op = "minify" =>
        /\ result'[1] = "Err"
        /\ inputs' = inputs
        /\ events' = <<>>
      ]_vars

\* C12: when process follows stop_recording, the failure it obtains from the
\* sensor is the failure written since the last start_recording, and none when
\* none was written since: a failure written before that start_recording, in an
\* earlier iteration, is not observed.
C12_RunIsolation ==
    [][(call.op = "stop_recording" /\ call'.op = "process") =>
        call'.error = written
      ]_vars

\* process observed the failure of this iteration while the pool holds the
\* failure of an earlier iteration, of another id
C12_Witness ==
    /\ call.op = "process"
    /\ IsSome(written)
    /\ call.error = written
    /\ \E g \in Groups : At(inputs, g).error.id # Unwrap(written).id

\* C20 as stated: stop_recording leaves the failure written by the guard in the
\* local slot and the process-wide slot empty; iterate_over_observations hands
\* the local slot to the sink and leaves it empty.
C20_SlotsMoved ==
    [][/\ call'.op = "stop_recording" =>
            /\ sensor_error' = TEST_FAILURE
            /\ TEST_FAILURE' = None
       /\ call'.op = "iterate_over_observations" =>
            /\ result' = sensor_error
            /\ sensor_error' = None
      ]_vars

\* C20: stop_recording copies the process-wide slot to the local slot and
\* leaves the process-wide slot as it was; iterate_over_observations and
\* process hand the local slot to the sink and leave it empty, so the second of
\* two of them in a row observes no failure.
C20_SlotTransfer ==
    [][/\ call'.op = "stop_recording" =>
            /\ sensor_error' = TEST_FAILURE
            /\ TEST_FAILURE' = TEST_FAILURE
       /\ call'.op = "iterate_over_observations" =>
            /\ result' = sensor_error
            /\ sensor_error' = None
            /\ TEST_FAILURE' = TEST_FAILURE
       /\ call'.op = "process" =>
            /\ call'.error = sensor_error
            /\ sensor_error' = None
            /\ TEST_FAILURE' = TEST_FAILURE
       /\ (call.op \in {"iterate_over_observations", "process"}
            /\ call'.op = "iterate_over_observations") => result' = None
       /\ (call.op \in {"iterate_over_observations", "process"}
            /\ call'.op = "process") => call'.error = None
      ]_vars

\* the sink was handed the failure, the local slot is empty and the
\* process-wide slot still holds the failure
C20_Witness ==
    /\ call.op = "iterate_over_observations"
    /\ IsSome(result)
    /\ sensor_error = None
    /\ TEST_FAILURE = result

\* C17: a process call that finds no failure in the sensor, or a failure whose
\* id is that of a group whose last bucket has a complexity strictly smaller
\* than the candidate's, leaves the pool and the stats unchanged, does not
\* call the event handler and returns success.
C17_NonAdmissionNoEffect ==
    [][(/\ call'.op = "process"
        /\ IF IsSome(sensor_error)
           THEN \E g \in GroupsOf(inputs, Observed.id) :
                    Less(LastBucket(g).cplx, call'.complexity)
           ELSE TRUE) =>
        /\ inputs' = inputs
        /\ stats' = stats
        /\ events' = <<>>
        /\ result' = Ok
      ]_vars

\* a failure of a known id was rejected at a complexity above that of the
\* group's last bucket, which is not full, and under a display no group has
C17_Witness ==
    /\ call.op = "process"
    /\ IsSome(call.error)
    /\ call.position = None
    /\ Unwrap(call.error).display \notin Displayed(inputs)
    /\ \E g \in GroupsOf(inputs, Unwrap(call.error).id) :
        /\ Less(LastBucket(g).cplx, call.complexity)
        /\ Len(LastBucket(g).inputs) < NBR_ARTIFACTS_PER_ERROR_AND_CPLX

\* C18: processing a failure whose id is that of no group appends one group at
\* the end, carrying that failure, with a single bucket of the candidate's
\* complexity that holds only the clone of the candidate; the groups that were
\* there keep their positions and contents, len() grows by one and the index
\* reported to the event handler is (len() - 1, 0, 0).
C18_NewErrorPlacement ==
    [][(ProcessStep /\ GroupsOf(inputs, Unwrap(sensor_error).id) = {}) =>
        /\ len(inputs') = len(inputs) + 1
        /\ \A g \in Groups : At(inputs', g) = At(inputs, g)
        /\ IsSome(call'.data)
        /\ Last(inputs') =
            [error |-> Observed,
             inputs |-> <<[cplx |-> call'.complexity,
                           inputs |-> <<[generation |-> 0,
                                         data |-> Unwrap(call'.data)]>>]>>]
        /\ Len(events') = 1
        /\ Unwrap(events'[1].delta.add)[2] = <<len(inputs') - 1, 0, 0>>
      ]_vars

\* a failure of a new id and of the display of the one group there is was
\* placed in a second group
C18_Witness ==
    /\ call.op = "process"
    /\ call.position = Some(NewError)
    /\ Len(inputs) = 2
    /\ At(inputs, 1).error = Unwrap(call.error)
    /\ At(inputs, 0).error.display = At(inputs, 1).error.display

\* C19: no two groups carry the same failure id, an admitted input lands in
\* the group whose id is that of the failure it was admitted from, and no group
\* is removed or moved: len() never decreases and a group keeps its position
\* and its id.
C19_GroupIdentity ==
    [][/\ \A g, h \in Positions(inputs') :
            g # h => At(inputs', g).error.id # At(inputs', h).error.id
       /\ len(inputs') >= len(inputs)
       /\ \A g \in Groups : At(inputs', g).error.id = At(inputs, g).error.id
       /\ (ProcessStep /\ IsSome(call'.new_index)) =>
            At(inputs', Unwrap(call'.new_index)[1]).error.id = Observed.id
      ]_vars

\* an input was admitted to the second group while the first group, emptied
\* by mark_test_case_as_dead_end, is still there
C19_Witness ==
    /\ call.op = "process"
    /\ IsSome(call.new_index)
    /\ Unwrap(call.new_index)[1] = 1
    /\ At(inputs, 1).error.id = Unwrap(call.error).id
    /\ \A b \in Buckets(0) : Bucket(0, b).inputs = <<>>

HandlerCalls(kind) == {k \in DOMAIN events' : events'[k].kind = kind}

\* C13: iterate_over_collected_features calls the handler once for every index
\* of the counter array that holds a nonzero counter, with that index and that
\* counter, and never for a zero counter, whatever the length of the array and
\* wherever the nonzero counters lie; after the edges it hands over every
\* recorded tag of a comparison once, and leaves the set of tags empty.
C13_CoverageIteration ==
    [][call'.op = "iterate_over_collected_features" =>
        LET counters == shared_sensor.eight_bit_counters
            edges == HandlerCalls("edge")
            instrs == HandlerCalls("instr")
        IN  /\ \A i \in Positions(counters) :
                Cardinality({k \in edges : events'[k].pc_guard = i})
                    = IF At(counters, i) # 0 THEN 1 ELSE 0
            /\ \A k \in edges :
                /\ events'[k].pc_guard \in Positions(counters)
                /\ events'[k].counter = At(counters, events'[k].pc_guard)
            /\ \A f \in shared_sensor.features :
                Cardinality({k \in instrs : events'[k].f = f}) = 1
            /\ \A k \in instrs : events'[k].f \in shared_sensor.features
            /\ \A k \in edges, m \in instrs : k < m
            /\ edges \cup instrs = DOMAIN events'
            /\ shared_sensor'.features = {}
      ]_vars

\* the handler was given the one counter of an otherwise zero chunk, a counter
\* of the remainder behind two chunks, and two tags
C13_Witness ==
    /\ call.op = "iterate_over_collected_features"
    /\ Len(shared_sensor.eight_bit_counters) = 65
    /\ Len(events) = 4
    /\ events[1] = edge(31, 2)
    /\ events[2] = edge(64, 1)
    /\ events[3].kind = "instr"
    /\ events[4].kind = "instr"

C15_PcLow22Bits ==
    (call.op = "trace_cmp" /\ IsSome(call.f)) =>
        \A pc \in KeyPcs :
            (pc % (2 ^ 22) = call.pc % (2 ^ 22))
                <=> (make_instr_feature_without_tag(pc, call.arg1, call.arg2)
                        = Unwrap(call.f))

HammingDistance(width, a, b) == Cardinality({i \in 0 .. (width - 1) : (i \in a) # (i \in b)})

\* C16: the bits of the tag of a comparison below the shift of the pc are the
\* number of bits in which the two arguments differ, between 0 and the width
\* of the arguments, whatever the pc.
C16_ComparePayload ==
    (call.op = "trace_cmp" /\ IsSome(call.f)) =>
        LET payload == Unwrap(call.f) % (2 ^ id_offset) IN
        /\ payload = HammingDistance(call.width, call.arg1, call.arg2)
        /\ payload \in 0 .. call.width
        /\ Unwrap(call.f) \in shared_sensor.features

\* two arguments of 64 bits that differ in every bit were compared at a pc
\* with all of its low bits set
C16_Witness ==
    /\ call.op = "trace_cmp"
    /\ IsSome(call.f)
    /\ call.width = 64
    /\ call.pc = 4194303
    /\ HammingDistance(64, call.arg1, call.arg2) = 64
    /\ Unwrap(call.f) % (2 ^ id_offset) = 64

\* C21: on a pool that holds at least one error group, whatever process and
\* mark_test_case_as_dead_end calls came before, get_random_index does not
\* fail and returns an index that designates an input of the pool.
C21_SamplingAfterRemovals ==
    (call.op = "get_random_index" /\ inputs # <<>>) =>
        /\ result # Panic
        /\ IsSome(result)
        /\ Unwrap(result) \in ValidIndices(inputs)

\* C22: when process admits its candidate and the event handler returns an
\* error, process returns that error and the pool keeps the inserted input:
\* the pool holds one input more, the clone of the candidate, at the index the
\* handler was given, and the same failure at the same complexity is now
\* classified against the group that holds it, never as a new error.
C22_InsertionNotRolledBack ==
    [][(ProcessStep /\ IsSome(call'.new_index)) =>
        LET idx == Unwrap(call'.new_index) IN
        /\ Len(events') = 1
        /\ idx \in ValidIndices(inputs')
        /\ IsSome(events'[1].delta.add)
        /\ Unwrap(events'[1].delta.add) = <<get(inputs', idx), idx>>
        /\ events'[1].returned[1] = "Err" =>
            /\ result' = events'[1].returned
            /\ Cardinality(ValidIndices(inputs')) = Cardinality(ValidIndices(inputs)) + 1
            /\ get(inputs', idx) = Unwrap(call'.data)
            /\ At(inputs', idx[1]).error.id = Observed.id
            /\ is_interesting(inputs', Observed, call'.complexity)
                   \in {None, Some(ExistingErrorAndCplx(idx[1]))}
      ]_vars

\* process returned the handler's error and the input it inserted into an
\* existing group, in a new bucket, is in the pool
C22_Witness ==
    /\ call.op = "process"
    /\ result[1] = "Err"
    /\ IsSome(call.new_index)
    /\ Unwrap(call.position)[1] = "ExistingErrorNewCplx"
    /\ Unwrap(call.new_index) \in ValidIndices(inputs)
    /\ get(inputs, Unwrap(call.new_index)) = Unwrap(call.data)

====
